---- MODULE Spec2Model ----
\* Model of run_verification (src/jules-scratch/verification/verify_ui_revamp.py).
\* One behaviour is a sequence of script invocations; each invocation walks
\* the with/try/except/finally structure of run_verification step by step.
\* Calls into Playwright (launch, new_page, goto, expect, screenshot) may
\* succeed or raise; which one happens is chosen nondeterministically.
EXTENDS Integers, Sequences, FiniteSets, TLC

\* Number of script invocations explored.
MaxRuns == 3

\* page.goto(..., timeout=60000)
NavTimeout == 60000
\* to_be_visible(timeout=30000)
WaitTimeout == 30000
\* Playwright's default timeout of chromium.launch (no timeout passed)
LaunchTimeout == 30000
\* Playwright's default timeout of page.screenshot (no timeout passed)
ShotTimeout == 30000

ShotPath == "jules-scratch/verification/landing_screen.png"

VARIABLES
    pc,          \* position in run_verification
    run,         \* number of the current invocation
    trace,       \* calls and printed lines of the current invocation, in order
    browser,     \* "none" | "open" | "closed"
    proc,        \* a browser process is running
    exc,         \* an exception is propagating out of the with block
    failCause,   \* which step raised inside the try: "none" | "goto" | "wait" | "shot"
    waitCause,   \* why the visibility wait failed: "none" | "missing" | "other"
    waitElapsed, \* ms spent in the visibility wait
    elapsed,     \* ms spent in the calls of the invocation that carry a timeout
    files,       \* set of [path, run, fullPage] records on disk
    dirExists,   \* jules-scratch/verification/ exists
    exitStatus,  \* exit status of the last finished invocation
    successes    \* number of invocations that ended without any error

vars == <<pc, run, trace, browser, proc, exc, failCause, waitCause, waitElapsed,
          elapsed, files, dirExists, exitStatus, successes>>

Done == {"returned", "raised"}

\* a call without a timeout that never returned
Hung == {"hung_new_page", "hung_close", "hung_exit"}

RECURSIVE CountIn(_, _)
CountIn(s, e) == IF s = <<>> THEN 0
                 ELSE (IF Head(s) = e THEN 1 ELSE 0) + CountIn(Tail(s), e)

Has(s, e) == \E i \in 1..Len(s) : s[i] = e

Prints == {"Capturing", "Captured", "Error", "Closed"}
PageOps == {"goto", "wait", "shot"}

PrintsOf(s) == SelectSeq(s, LAMBDA e : e \in Prints)

Init ==
    /\ pc = "idle"
    /\ run = 0
    /\ trace = <<>>
    /\ browser = "none"
    /\ proc = FALSE
    /\ exc = FALSE
    /\ failCause = "none"
    /\ waitCause = "none"
    /\ waitElapsed = 0
    /\ elapsed = 0
    \* the disk may already hold a screenshot of an earlier, unmodelled run
    /\ \/ files = {} /\ dirExists \in BOOLEAN
       \/ \E fp \in BOOLEAN :
            /\ files = {[path |-> ShotPath, run |-> 0, fullPage |-> fp]}
            /\ dirExists = TRUE
    /\ exitStatus = 0
    /\ successes = 0

\* __main__: run_verification(); with sync_playwright() as p:
Start ==
    /\ pc \in {"idle"} \cup Done
    /\ run < MaxRuns
    /\ pc' = "launch"
    /\ run' = run + 1
    /\ trace' = <<>>
    /\ browser' = "none"
    /\ exc' = FALSE
    /\ failCause' = "none"
    /\ waitCause' = "none"
    /\ waitElapsed' = 0
    /\ elapsed' = 0
    /\ UNCHANGED <<proc, files, dirExists, exitStatus, successes>>

\* browser = p.chromium.launch(headless=True)
LaunchOk ==
    /\ pc = "launch"
    /\ \E d \in {0, LaunchTimeout} :
         elapsed' = elapsed + d
    /\ pc' = "new_page"
    /\ browser' = "open"
    /\ proc' = TRUE
    /\ trace' = Append(trace, "launch")
    /\ UNCHANGED <<run, exc, failCause, waitCause, waitElapsed, files,
                   dirExists, exitStatus, successes>>

LaunchFail ==
    /\ pc = "launch"
    /\ \E d \in {0, LaunchTimeout} :
         elapsed' = elapsed + d
    /\ pc' = "exit"
    /\ exc' = TRUE
    /\ UNCHANGED <<run, trace, browser, proc, failCause, waitCause, waitElapsed,
                   files, dirExists, exitStatus, successes>>

\* page = browser.new_page()  (before the try block)
NewPageOk ==
    /\ pc = "new_page"
    /\ pc' = "goto"
    /\ trace' = Append(trace, "new_page")
    /\ UNCHANGED <<run, browser, proc, exc, failCause, waitCause, waitElapsed,
                   elapsed, files, dirExists, exitStatus, successes>>

NewPageFail ==
    /\ pc = "new_page"
    /\ pc' = "exit"
    /\ exc' = TRUE
    /\ UNCHANGED <<run, trace, browser, proc, failCause, waitCause, waitElapsed,
                   elapsed, files, dirExists, exitStatus, successes>>

\* browser.new_page() has no timeout: it may block forever
NewPageHang ==
    /\ pc = "new_page"
    /\ pc' = "hung_new_page"
    /\ UNCHANGED <<run, trace, browser, proc, exc, failCause, waitCause, waitElapsed,
                   elapsed, files, dirExists, exitStatus, successes>>

\* page.goto("http://localhost:8081", timeout=60000)
GotoOk ==
    /\ pc = "goto"
    /\ \E d \in {0, NavTimeout} :
         elapsed' = elapsed + d
    /\ pc' = "wait"
    /\ trace' = Append(trace, "goto")
    /\ UNCHANGED <<run, browser, proc, exc, failCause, waitCause, waitElapsed,
                   files, dirExists, exitStatus, successes>>

\* variant: a failed navigation is retried
GotoRetry ==
    /\ pc = "goto"
    /\ \E d \in {0, NavTimeout} :
         elapsed' = elapsed + d
    /\ Len(trace) < 6
    /\ pc' = "goto"
    /\ trace' = Append(trace, "goto")
    /\ UNCHANGED <<run, browser, proc, exc, failCause, waitCause, waitElapsed,
                   files, dirExists, exitStatus, successes>>

\* refused connection fails at once, an unanswered one at the timeout
GotoFail ==
    /\ pc = "goto"
    /\ \E d \in {0, NavTimeout} :
         elapsed' = elapsed + d
    /\ pc' = "except"
    /\ failCause' = "goto"
    /\ trace' = Append(trace, "goto")
    /\ UNCHANGED <<run, browser, proc, exc, waitCause, waitElapsed,
                   files, dirExists, exitStatus, successes>>

\* expect(page.get_by_text("Nadar")).to_be_visible(timeout=30000)
WaitOk ==
    /\ pc = "wait"
    /\ \E d \in {0, WaitTimeout} :
         /\ waitElapsed' = d
         /\ elapsed' = elapsed + d
    /\ pc' = "capturing"
    /\ trace' = Append(trace, "wait")
    /\ UNCHANGED <<run, browser, proc, exc, failCause, waitCause,
                   files, dirExists, exitStatus, successes>>

\* variant: a failed wait falls through to the screenshot
WaitFailProceeds ==
    /\ pc = "wait"
    /\ \E c \in {"missing", "other"} :
         /\ waitCause' = c
         /\ waitElapsed' = IF c = "missing" THEN WaitTimeout ELSE 0
         /\ elapsed' = elapsed + waitElapsed'
    /\ pc' = "capturing"
    /\ failCause' = "wait"
    /\ trace' = Append(trace, "wait")
    /\ UNCHANGED <<run, browser, proc, exc, files, dirExists, exitStatus, successes>>

\* variant: a missing marker is reported without waiting
WaitFailInstant ==
    /\ pc = "wait"
    /\ \E c \in {"missing", "other"} :
         /\ waitCause' = c
         /\ waitElapsed' = 0
         /\ elapsed' = elapsed
    /\ pc' = "except"
    /\ failCause' = "wait"
    /\ trace' = Append(trace, "wait")
    /\ UNCHANGED <<run, browser, proc, exc, files, dirExists, exitStatus, successes>>

\* expect retries the assertion until the timeout when the text never shows;
\* any other error (e.g. a crashed page) raises at once
WaitFail ==
    /\ pc = "wait"
    /\ \E c \in {"missing", "other"} :
         /\ waitCause' = c
         /\ waitElapsed' = IF c = "missing" THEN WaitTimeout ELSE 0
         /\ elapsed' = elapsed + waitElapsed'
    /\ pc' = "except"
    /\ failCause' = "wait"
    /\ trace' = Append(trace, "wait")
    /\ UNCHANGED <<run, browser, proc, exc, files, dirExists, exitStatus, successes>>

\* print("Capturing Landing Screen...")
PrintCapturing ==
    /\ pc = "capturing"
    /\ pc' = "shot"
    /\ trace' = Append(trace, "Capturing")
    /\ UNCHANGED <<run, browser, proc, exc, failCause, waitCause, waitElapsed,
                   elapsed, files, dirExists, exitStatus, successes>>

\* variant: the screenshot is not saved
ShotOkNoWrite ==
    /\ pc = "shot"
    /\ pc' = "captured"
    /\ trace' = Append(trace, "shot")
    /\ UNCHANGED <<run, browser, proc, exc, failCause, waitCause, waitElapsed,
                   elapsed, files, dirExists, exitStatus, successes>>

\* variant: each run adds a file instead of replacing it
ShotOkAppend ==
    /\ pc = "shot"
    /\ pc' = "captured"
    /\ trace' = Append(trace, "shot")
    /\ dirExists' = TRUE
    /\ files' = files \cup {[path |-> ShotPath, run |-> run, fullPage |-> FALSE]}
    /\ UNCHANGED <<run, browser, proc, exc, failCause, waitCause, waitElapsed,
                   elapsed, exitStatus, successes>>

\* page.screenshot(path=...): full_page defaults to False (viewport only);
\* Playwright creates the parent directories and overwrites the file
ShotOk ==
    /\ pc = "shot"
    /\ \E d \in {0, ShotTimeout} :
         elapsed' = elapsed + d
    /\ pc' = "captured"
    /\ trace' = Append(trace, "shot")
    /\ dirExists' = TRUE
    /\ files' = {f \in files : f.path # ShotPath}
                  \cup {[path |-> ShotPath, run |-> run, fullPage |-> FALSE]}
    /\ UNCHANGED <<run, browser, proc, exc, failCause, waitCause, waitElapsed,
                   exitStatus, successes>>

\* variant: a failed screenshot is reported as captured
ShotFailPrintsCaptured ==
    /\ pc = "shot"
    /\ pc' = "captured"
    /\ failCause' = "shot"
    /\ trace' = Append(trace, "shot")
    /\ UNCHANGED <<run, browser, proc, exc, waitCause, waitElapsed,
                   elapsed, files, dirExists, exitStatus, successes>>

ShotFail ==
    /\ pc = "shot"
    /\ \E d \in {0, ShotTimeout} :
         elapsed' = elapsed + d
    /\ pc' = "except"
    /\ failCause' = "shot"
    /\ trace' = Append(trace, "shot")
    /\ UNCHANGED <<run, browser, proc, exc, waitCause, waitElapsed,
                   files, dirExists, exitStatus, successes>>

\* print("Landing Screen captured.")
PrintCaptured ==
    /\ pc = "captured"
    /\ pc' = "finally"
    /\ trace' = Append(trace, "Captured")
    /\ UNCHANGED <<run, browser, proc, exc, failCause, waitCause, waitElapsed,
                   elapsed, files, dirExists, exitStatus, successes>>

\* variant: the handler re-raises after printing
ExceptReraise ==
    /\ pc = "except"
    /\ pc' = "finally"
    /\ exc' = TRUE
    /\ trace' = Append(trace, "Error")
    /\ UNCHANGED <<run, browser, proc, failCause, waitCause, waitElapsed,
                   elapsed, files, dirExists, exitStatus, successes>>

\* variant: the handler prints nothing
ExceptSilent ==
    /\ pc = "except"
    /\ pc' = "finally"
    /\ UNCHANGED <<run, trace, browser, proc, exc, failCause, waitCause, waitElapsed,
                   elapsed, files, dirExists, exitStatus, successes>>

\* except Exception as e: print(f"An error occurred during Playwright execution: {e}")
Except ==
    /\ pc = "except"
    /\ pc' = "finally"
    /\ trace' = Append(trace, "Error")
    /\ UNCHANGED <<run, browser, proc, exc, failCause, waitCause, waitElapsed,
                   elapsed, files, dirExists, exitStatus, successes>>

\* variant: the browser is not closed in the finally block
FinallyNoClose ==
    /\ pc = "finally"
    /\ pc' = "exit"
    /\ trace' = Append(trace, "Closed")
    /\ UNCHANGED <<run, browser, proc, exc, failCause, waitCause, waitElapsed,
                   elapsed, files, dirExists, exitStatus, successes>>

\* finally: browser.close(); print("Browser closed.")
Finally ==
    /\ pc = "finally"
    /\ pc' = "exit"
    /\ browser' = "closed"
    /\ proc' = FALSE
    /\ trace' = trace \o <<"close", "Closed">>
    /\ UNCHANGED <<run, exc, failCause, waitCause, waitElapsed,
                   elapsed, files, dirExists, exitStatus, successes>>

\* browser.close() raises (any error other than target-closed is re-raised):
\* print("Browser closed.") is skipped and the exception propagates
CloseFail ==
    /\ pc = "finally"
    /\ pc' = "exit"
    /\ browser' = "closed"
    /\ exc' = TRUE
    /\ trace' = Append(trace, "close")
    /\ UNCHANGED <<run, proc, failCause, waitCause, waitElapsed,
                   elapsed, files, dirExists, exitStatus, successes>>

\* browser.close() has no timeout: it may block forever
CloseHang ==
    /\ pc = "finally"
    /\ pc' = "hung_close"
    /\ UNCHANGED <<run, trace, browser, proc, exc, failCause, waitCause, waitElapsed,
                   elapsed, files, dirExists, exitStatus, successes>>

\* leaving the with block: sync_playwright stops the driver, which ends any
\* browser it launched; a pending exception propagates out of run_verification
\* and ends the script with status 1
Exit ==
    /\ pc = "exit"
    /\ pc' = IF exc THEN "raised" ELSE "returned"
    /\ proc' = FALSE
    /\ exitStatus' = IF exc THEN 1 ELSE 0
    /\ successes' = IF ~exc /\ failCause = "none" THEN successes + 1 ELSE successes
    /\ UNCHANGED <<run, trace, browser, exc, failCause, waitCause, waitElapsed,
                   elapsed, files, dirExists>>

\* stopping the Playwright driver on leaving the with block has no timeout
ExitHang ==
    /\ pc = "exit"
    /\ pc' = "hung_exit"
    /\ UNCHANGED <<run, trace, browser, proc, exc, failCause, waitCause, waitElapsed,
                   elapsed, files, dirExists, exitStatus, successes>>

RunStep ==
    \/ LaunchOk \/ LaunchFail \/ NewPageOk \/ NewPageFail \/ NewPageHang
    \/ GotoOk \/ GotoFail \/ WaitOk \/ WaitFail
    \/ PrintCapturing \/ ShotOk \/ ShotFail \/ PrintCaptured
    \/ Except \/ Finally \/ CloseFail \/ CloseHang \/ Exit \/ ExitHang

Next == Start \/ RunStep

Spec == Init /\ [][Next]_vars

LiveSpec == Spec /\ WF_vars(RunStep)


Idx(s, e) == CHOOSE i \in 1..Len(s) : s[i] = e

\* C1: every invocation whose try block is entered calls browser.close()
\* before run_verification returns, and on return no browser process runs.
C1_CloseWhenTryEntered ==
    pc \in Done =>
        /\ ~proc
        /\ (Has(trace, "new_page") => Has(trace, "close"))

C1_Witness == pc = "returned" /\ failCause = "goto" /\ Has(trace, "close")

\* C1 (original): every invocation in which launch succeeded calls browser.close().
C1_CloseEveryRun ==
    (pc \in Done /\ Has(trace, "launch")) => Has(trace, "close")

\* C2 (amended): a failure of goto, the wait or the screenshot is caught,
\* printed once as an error, not retried and not re-raised; every invocation
\* whose try block is entered, successful or failed, returns with status 0,
\* unless browser.close() raises, which propagates (status 1).
C2_ErrorsSwallowed ==
    /\ (pc \in Done /\ failCause # "none") =>
          /\ CountIn(trace, "Error") = 1
          /\ \A op \in PageOps : CountIn(trace, op) <= 1
    /\ (pc \in Done /\ Has(trace, "new_page")) =>
          \/ pc = "returned" /\ exitStatus = 0
          \/ pc = "raised" /\ exitStatus = 1 /\ trace[Len(trace)] = "close"

C2_Witness == pc = "returned" /\ failCause = "shot"

\* C2 (original): after a caught failure of goto, the wait or the screenshot
\* the error is printed once and the invocation returns normally; every
\* invocation whose try block is entered exits with status 0.
C2_AlwaysReturns ==
    /\ (pc \in Done /\ failCause # "none") =>
          /\ pc = "returned"
          /\ CountIn(trace, "Error") = 1
    /\ (pc \in Done /\ Has(trace, "new_page")) => exitStatus = 0

\* C3: goto precedes the wait, which precedes the screenshot; after a failed
\* goto or wait no screenshot is taken or written in that invocation.
C3_StepOrder ==
    /\ Has(trace, "shot") =>
          /\ Has(trace, "goto") /\ Has(trace, "wait")
          /\ Idx(trace, "goto") < Idx(trace, "wait")
          /\ Idx(trace, "wait") < Idx(trace, "shot")
          /\ failCause \notin {"goto", "wait"}
    /\ failCause \in {"goto", "wait"} =>
          /\ ~Has(trace, "shot")
          /\ \A f \in files : f.run # run

C3_Witness == pc = "returned" /\ failCause = "wait" /\ files # {}

\* C4: an invocation that ends without an error message leaves the
\* screenshot of that invocation at the screenshot path.
C4_SuccessWritesFile ==
    (pc = "returned" /\ Has(trace, "new_page") /\ ~Has(trace, "Error")) =>
        \E f \in files : f.path = ShotPath /\ f.run = run

C4_Witness == pc = "returned" /\ failCause = "none" /\ run = 2

\* C5: the screenshot saved by run_verification is a full-page capture.
C5_FullPageShot == \A f \in files : f.run > 0 => f.fullPage

\* C6: there is never more than one file at the screenshot path, and after a
\* successful invocation it holds that invocation's capture.
C6_Overwrite ==
    /\ Cardinality({f \in files : f.path = ShotPath}) <= 1
    /\ (pc = "returned" /\ failCause = "none" /\ Has(trace, "new_page")) =>
          \E f \in files : f.run = run

C6_Witness == successes >= 2 /\ pc = "returned" /\ failCause = "none"

\* C7: "Capturing Landing Screen..." is printed right before the screenshot
\* call, "Landing Screen captured." only right after a successful one.
C7_ProgressLines ==
    /\ \A i \in 1..Len(trace) :
          trace[i] = "shot" => i > 1 /\ trace[i-1] = "Capturing"
    /\ \A i \in 1..Len(trace) :
          trace[i] = "Captured" => i > 1 /\ trace[i-1] = "shot" /\ failCause # "shot"
    /\ (failCause = "shot" /\ pc \in Done) =>
          Has(trace, "Capturing") /\ ~Has(trace, "Captured")

C7_Witness == pc = "returned" /\ failCause = "shot"

C9_PageOpsWhileOpen ==
    /\ \A op \in PageOps : CountIn(trace, op) <= 1
    /\ pc \in {"goto", "wait", "shot"} => browser = "open"
    /\ \A i \in 1..Len(trace) :
          trace[i] \in PageOps => \A j \in 1..i : trace[j] # "close"
    /\ pc \in Done =>
          CountIn(trace, "close") = IF Has(trace, "new_page") THEN 1 ELSE 0

C9_Witness == pc = "raised" /\ Has(trace, "launch") /\ ~Has(trace, "new_page")

\* C9 (original): close runs exactly once in every invocation whose launch succeeded.
C9_CloseOncePerLaunch ==
    (pc \in Done /\ Has(trace, "launch")) => CountIn(trace, "close") = 1

\* C10: once the try block is entered, "Browser closed." is printed once, last,
\* right after either "Landing Screen captured." or the error line, never both.
C10_OutputOrderAlways ==
    (pc \in Done /\ Has(trace, "new_page")) =>
        LET p == PrintsOf(trace) IN
            /\ Len(p) >= 2
            /\ p[Len(p)] = "Closed"
            /\ CountIn(p, "Closed") = 1

\* C10 (amended): once the try block is entered, the invocation prints
\* "Landing Screen captured." on success or exactly one error line on failure,
\* never both; if it returns, "Browser closed." follows once, last; if
\* browser.close() raises, "Browser closed." is not printed.
C10_OutputOrder ==
    (pc \in Done /\ Has(trace, "new_page")) =>
        LET p == PrintsOf(trace)
            body == IF pc = "returned" THEN SubSeq(p, 1, Len(p) - 1) ELSE p
        IN  /\ CountIn(p, "Error") <= 1
            /\ ~(Has(p, "Error") /\ Has(p, "Captured"))
            /\ Len(body) >= 1
            /\ body[Len(body)] = IF failCause = "none" THEN "Captured" ELSE "Error"
            /\ ~Has(body, "Closed")
            /\ pc = "returned" => p[Len(p)] = "Closed"
            /\ pc = "raised" => trace[Len(trace)] = "close"

C10_Witness == pc = "returned" /\ failCause = "wait"

====
